---- MODULE Spec2Model ----
(***************************************************************************)
(* A model of acitoolkit's AAEP object family (aaep.py) and of the         *)
(* LogicalModel container (logicalmodel.py).                               *)
(*                                                                         *)
(* Python values are records [k, r, s]: k is the Python type ("none",      *)
(* "str", "int", "ref"), s the characters of a str (or the decimal digits  *)
(* of an int), r the heap index of an object reference.                    *)
(***************************************************************************)
EXTENDS Integers, Sequences, FiniteSets, TLC

VARIABLES
    heap,       \* the objects alive, by index: a sequence of object records
    err,        \* exception raised by the last operation, "none" if it returned
    op,         \* the last operation and its arguments
    ret,        \* what the last operation returned
    saved,      \* the node as it was before the last round trip
    sessionLog, \* requests the last operation made through the Session
    imdata,     \* the records the Session's get answers with
    reads,      \* class-level reads made by the last populate_children
    encapArg,   \* argument handed to AAEP_EPG.is_valid_encap
    encapRet    \* "uncalled", "True", "False" or "raised"

vars == <<heap, err, op, ret, saved, sessionLog, imdata, reads, encapArg, encapRet>>

(***************************************************************************)
(* Python values                                                           *)
(***************************************************************************)
None == [k |-> "none", r |-> 0, s |-> <<>>]
Str(chars) == [k |-> "str", r |-> 0, s |-> chars]
IntLit(digits) == [k |-> "int", r |-> 0, s |-> digits]
Ref(i) == [k |-> "ref", r |-> i, s |-> <<>>]

EmptyStr == Str(<<>>)
PyTrue == [k |-> "bool", r |-> 1, s |-> <<>>]
PyFalse == [k |-> "bool", r |-> 0, s |-> <<>>]

\* bool(v) for the values of the model: None, '' and 0 are false
Truthy(v) ==
    CASE v.k = "none" -> FALSE
      [] v.k = "str" -> Len(v.s) > 0
      [] v.k = "int" -> \E i \in 1..Len(v.s) : v.s[i] # "0"
      [] v.k = "bool" -> v.r = 1
      [] OTHER -> TRUE

Digits == {"0", "1", "2", "3", "4", "5", "6", "7", "8", "9"}

DigitVal(c) ==
    CASE c = "0" -> 0 [] c = "1" -> 1 [] c = "2" -> 2 [] c = "3" -> 3
      [] c = "4" -> 4 [] c = "5" -> 5 [] c = "6" -> 6 [] c = "7" -> 7
      [] c = "8" -> 8 [] c = "9" -> 9

\* s[:n] and s[n:] on a sequence of characters
SliceTo(s, n) == SubSeq(s, 1, IF n < Len(s) THEN n ELSE Len(s))
SliceFrom(s, n) == SubSeq(s, n + 1, Len(s))

\* the sequences over S of length at most n
SeqsUpTo(S, n) == UNION {[1..m -> S] : m \in 0..n}

(***************************************************************************)
(* int(str): surrounding whitespace is stripped, one sign is allowed, and  *)
(* the digits may be grouped by single underscores.  Anything else is a    *)
(* ValueError (ok = FALSE).                                                *)
(***************************************************************************)
RECURSIVE LStrip(_)
LStrip(s) == IF Len(s) > 0 /\ s[1] = " " THEN LStrip(Tail(s)) ELSE s

RECURSIVE RStrip(_)
RStrip(s) ==
    IF Len(s) > 0 /\ s[Len(s)] = " " THEN RStrip(SubSeq(s, 1, Len(s) - 1)) ELSE s

RECURSIVE DigitsValue(_, _)
DigitsValue(s, acc) ==
    IF Len(s) = 0 THEN acc
    ELSE IF s[1] = "_" THEN DigitsValue(Tail(s), acc)
    ELSE DigitsValue(Tail(s), acc * 10 + DigitVal(s[1]))

WellFormedDigits(s) ==
    /\ Len(s) > 0
    /\ \A i \in 1..Len(s) : s[i] \in Digits \cup {"_"}
    /\ s[1] \in Digits
    /\ s[Len(s)] \in Digits
    /\ \A i \in 1..(Len(s) - 1) : ~(s[i] = "_" /\ s[i + 1] = "_")

PyInt(s) ==
    LET t == RStrip(LStrip(s))
        signed == Len(t) > 0 /\ t[1] \in {"+", "-"}
        body == IF signed THEN Tail(t) ELSE t
    IN  IF WellFormedDigits(body)
        THEN [ok |-> TRUE,
              v |-> IF signed /\ t[1] = "-" THEN 0 - DigitsValue(body, 0)
                    ELSE DigitsValue(body, 0)]
        ELSE [ok |-> FALSE, v |-> 0]

VlanMin == 1
VlanMax == 4094
PrefixLen == 5
VlanPrefix == <<"v", "l", "a", "n", "-">>

\* AAEP_EPG.is_valid_encap: "True", "False", or "raised"
is_valid_encap(encap) ==
    IF encap.k # "str" THEN "False"
    ELSE IF SliceTo(encap.s, PrefixLen) # VlanPrefix THEN "False"
    ELSE LET vlan == PyInt(SliceFrom(encap.s, PrefixLen))
         IN  IF ~vlan.ok THEN "False"
             ELSE IF vlan.v < VlanMin \/ vlan.v > VlanMax THEN "False"
             ELSE "True"

(***************************************************************************)
(* Objects.  Every object carries every field; a class that does not use   *)
(* a field leaves it None.                                                 *)
(***************************************************************************)
TheSession == [k |-> "session", r |-> 0, s |-> <<>>]

Obj(cls) ==
    [cls |-> cls, parent |-> None, children |-> <<>>, name |-> None,
     descr |-> None, dn |-> None, lcOwn |-> None, childAction |-> None,
     tDn |-> None, encap |-> None, epg |-> None, session |-> None]

\* isinstance(v, cls) for an object reference v
IsInstance(h, v, cls) == v.k = "ref" /\ v.r \in 1..Len(h) /\ h[v.r].cls = cls

Raise(h, e) == [err |-> e, heap |-> h, id |-> 0]

NameA == Str(<<"a">>)
NameB == Str(<<"b">>)
Asdf == Str(<<"a", "s", "d", "f">>)
Logical == Str(<<"l", "o", "g", "i", "c", "a", "l">>)
Vlan5 == Str(<<"v", "l", "a", "n", "-", "5">>)
Vlan0 == Str(<<"v", "l", "a", "n", "-", "0">>)

AAEP_EPG_get_parent_class == "AAEP"
AAEP_PhysDomain_get_parent_class == "AAEP"
LogicalModel_get_parent_class == "Fabric"
\* AAEP overrides nothing; its constructor documents the parent as
\* "The logical model or None", and LogicalModel lists AAEP as a child class
AAEP_get_parent_class == "LogicalModel"

\* Tenant and PhysDomain are the other child classes LogicalModel lists
Tenant_get_parent_class == "LogicalModel"
PhysDomain_get_parent_class == "LogicalModel"

get_parent_class(cls) ==
    CASE cls = "AAEP_EPG" -> AAEP_EPG_get_parent_class
      [] cls = "Tenant" -> Tenant_get_parent_class
      [] cls = "PhysDomain" -> PhysDomain_get_parent_class
      [] cls = "AAEP_PhysDomain" -> AAEP_PhysDomain_get_parent_class
      [] cls = "LogicalModel" -> LogicalModel_get_parent_class
      [] cls = "AAEP" -> AAEP_get_parent_class
      [] OTHER -> "object"

\* BaseACIObject.__init__(name, parent): a supplied parent must be an
\* instance of the declared parent class; the node records name and parent,
\* starts without children and is linked under its parent.
BaseACIObject_init(h, self, name, parent) ==
    IF parent # None /\ ~IsInstance(h, parent, get_parent_class(self.cls))
    THEN Raise(h, "TypeError")
    ELSE LET id == Len(h) + 1
             node == [self EXCEPT !.name = name, !.parent = parent,
                                  !.children = <<>>]
             h1 == Append(h, node)
         IN  [err |-> "none",
              heap |-> IF parent.k = "ref"
                       THEN [h1 EXCEPT ![parent.r].children = Append(@, id)]
                       ELSE h1,
              id |-> id]

\* the parent check against the wrong class
AAEP_EPG_parent_ok_WrongClass(h, parent) ==
    Truthy(parent) => IsInstance(h, parent, "EPG")

\* aaep.py 26-28: "if parent: if not isinstance(parent, AAEP): raise TypeError"
AAEP_EPG_parent_ok(h, parent) ==
    Truthy(parent) => IsInstance(h, parent, "AAEP")

\* aaep.py 29-31
AAEP_EPG_epg_ok(h, epg) ==
    Truthy(epg) => IsInstance(h, epg, "EPG")

\* the target dn never taken from the EPG
AAEP_EPG_tDn_Unset(h, epg) == None

\* aaep.py 37-40: the target dn is read from the EPG once
AAEP_EPG_tDn(h, epg) ==
    IF Truthy(epg) THEN h[epg.r].dn ELSE None

\* aaep.py 41-43
AAEP_EPG_encap_ok(encap) ==
    Truthy(encap) => is_valid_encap(encap) = "True"

\* AAEP_EPG.__init__(parent, epg, encap).  A ValueError is raised after the
\* base constructor has linked the node under its parent: the node then
\* stays among the parent's children without an encap.
AAEP_EPG_init(h, parent, epg, encap) ==
    IF ~AAEP_EPG_parent_ok(h, parent) THEN Raise(h, "TypeError")
    ELSE IF ~AAEP_EPG_epg_ok(h, epg) THEN Raise(h, "TypeError")
    ELSE LET b == BaseACIObject_init(h, Obj("AAEP_EPG"), Asdf, parent)
         IN  IF b.err # "none" THEN b
             ELSE LET h1 == [b.heap EXCEPT ![b.id].dn = None,
                                           ![b.id].lcOwn = None,
                                           ![b.id].childAction = None,
                                           ![b.id].epg = epg,
                                           ![b.id].tDn = AAEP_EPG_tDn(h, epg)]
                  IN  IF ~AAEP_EPG_encap_ok(encap)
                      THEN Raise(IF parent.k = "ref" THEN h1 ELSE h, "ValueError")
                      ELSE [b EXCEPT !.heap = [h1 EXCEPT ![b.id].encap = encap]]

\* AAEP_PhysDomain defines no constructor: BaseACIObject.__init__ runs
AAEP_PhysDomain_init(h, name, parent) ==
    BaseACIObject_init(h, Obj("AAEP_PhysDomain"), name, parent)

\* AAEP.__init__(name, parent)
AAEP_init(h, name, parent) ==
    LET self == [Obj("AAEP") EXCEPT !.dn = None, !.lcOwn = None,
                                    !.childAction = None, !.descr = None,
                                    !.name = name]
    IN  BaseACIObject_init(h, self, name, parent)

\* LogicalModel.__init__(session, parent)
LogicalModel_init(h, session, parent) ==
    IF Truthy(session) /\ session.k # "session" THEN Raise(h, "AssertionError")
    ELSE LET b == BaseACIObject_init(h, Obj("LogicalModel"), EmptyStr, parent)
         IN  IF b.err # "none" THEN b
             ELSE [b EXCEPT !.heap = [b.heap EXCEPT ![b.id].session = session,
                                                    ![b.id].dn = Logical]]

(***************************************************************************)
(* The attribute codec                                                     *)
(***************************************************************************)
EmptyDict == [key \in {} |-> None]

\* d[key] = v added to the dict d
DictSet(d, key, v) ==
    [x \in DOMAIN d \cup {key} |-> IF x = key THEN v ELSE d[x]]

\* d.get(key)
DictGet(d, key) == IF key \in DOMAIN d THEN d[key] ELSE None

\* "if self.f: attributes['f'] = self.f" for the fields fs, in order
RECURSIVE EmitSet(_, _, _)
EmitSet(node, fs, d) ==
    IF Len(fs) = 0 THEN d
    ELSE EmitSet(node, Tail(fs),
                 IF Truthy(node[Head(fs)]) THEN DictSet(d, Head(fs), node[Head(fs)])
                 ELSE d)

AAEP_EPG_fields == <<"dn", "lcOwn", "childAction", "tDn", "encap">>
AAEP_fields == <<"name", "descr", "dn", "lcOwn", "childAction">>

AAEP_EPG_generate_attributes(node) == EmitSet(node, AAEP_EPG_fields, EmptyDict)

\* "if self.f is not None" in place of "if self.f"
AAEP_generate_attributes_NotNone(node) ==
    LET present == {f \in {AAEP_fields[i] : i \in 1..Len(AAEP_fields)} : node[f] # None}
    IN  [f \in present |-> node[f]]

AAEP_generate_attributes(node) == EmitSet(node, AAEP_fields, EmptyDict)

\* BaseACIObject.get_dn_from_attributes
get_dn_from_attributes(attributes) == DictGet(attributes, "dn")

\* tDn read from the 'dn' key
AAEP_EPG_populate_from_attributes_TDnFromDn(node, attributes) ==
    [node EXCEPT !.dn = get_dn_from_attributes(attributes),
                 !.lcOwn = DictGet(attributes, "lcOwn"),
                 !.childAction = DictGet(attributes, "childAction"),
                 !.tDn = DictGet(attributes, "dn"),
                 !.encap = DictGet(attributes, "encap")]

AAEP_EPG_populate_from_attributes(node, attributes) ==
    [node EXCEPT !.dn = get_dn_from_attributes(attributes),
                 !.lcOwn = DictGet(attributes, "lcOwn"),
                 !.childAction = DictGet(attributes, "childAction"),
                 !.tDn = DictGet(attributes, "tDn"),
                 !.encap = DictGet(attributes, "encap")]

\* BaseACIObject._populate_from_attributes, which AAEP inherits: every
\* declared field is set from the mapping, None when absent
AAEP_populate_from_attributes(node, attributes) ==
    [node EXCEPT !.name = DictGet(attributes, "name"),
                 !.descr = DictGet(attributes, "descr"),
                 !.dn = get_dn_from_attributes(attributes),
                 !.lcOwn = DictGet(attributes, "lcOwn"),
                 !.childAction = DictGet(attributes, "childAction")]

(***************************************************************************)
(* JSON documents and URLs                                                 *)
(***************************************************************************)
\* BaseACIObject.get_json(obj_class, attributes, children): only the
\* children the caller passes are included
BaseACIObject_get_json(obj_class, attributes, children) ==
    [cls |-> obj_class, attributes |-> attributes, children |-> children]

NoDoc == BaseACIObject_get_json("", EmptyDict, <<>>)

AAEP_EPG_apic_class == "infraRsFuncToEpg"
AAEP_apic_class == "infraAttEntityP"

AAEP_EPG_get_json(node) ==
    BaseACIObject_get_json(AAEP_EPG_apic_class,
                           AAEP_EPG_generate_attributes(node), <<>>)

\* AAEP.get_json: "children = []" is what is passed on
AAEP_get_json(node) ==
    LET attr == AAEP_generate_attributes(node)
        children == <<>>
    IN  BaseACIObject_get_json(AAEP_apic_class, attr, children)

AAEP_get_url(fmt) == <<"/api/mo/uni/infra.", fmt>>

AAEP_query_url ==
    <<"/api/mo/uni.json?query-target=subtree&", "target-subtree-class=",
      AAEP_apic_class>>

(***************************************************************************)
(* Observation of the last operation                                       *)
(***************************************************************************)
Op(name, cls, self, parent, a2, a3) ==
    [name |-> name, cls |-> cls, self |-> self, parent |-> parent,
     a2 |-> a2, a3 |-> a3]

IdleOp == Op("init", "", 0, None, None, None)

Ret(attrs, list, obj, status) ==
    [attrs |-> attrs, list |-> list, obj |-> obj, status |-> status]

IdleRet == Ret(EmptyDict, <<>>, 0, "")

\* AAEP_EPG.get_url
AAEP_EPG_get_url(fmt) == <<"/api/mo/uni.", fmt>>

\* the request of push_to_apic: session.push_to_apic(get_url(), get_json())
AAEP_push_request(node) ==
    [method |-> "push_to_apic", url |-> AAEP_get_url("json"),
     doc |-> AAEP_get_json(node)]

AAEP_EPG_push_request(node) ==
    [method |-> "push_to_apic", url |-> AAEP_EPG_get_url("json"),
     doc |-> AAEP_EPG_get_json(node)]

(***************************************************************************)
(* Construction, mutation and push on a small tree.  The initial tree is   *)
(* fabric -> logical model -> AAEP 'a', next to an EPG without a dn.       *)
(***************************************************************************)
MaxNew == 1

BareHeap == <<Obj("Fabric"), Obj("EPG")>>
FabricId == CHOOSE i \in 1..Len(BareHeap) : BareHeap[i].cls = "Fabric"
EpgId == CHOOSE i \in 1..Len(BareHeap) : BareHeap[i].cls = "EPG"

Fixture ==
    LET lm == LogicalModel_init(BareHeap, TheSession, Ref(FabricId))
    IN  AAEP_init(lm.heap, NameA, Ref(lm.id)).heap

DnVals == {None, NameA, NameB}
ParentInputs == {None, EmptyStr} \cup {Ref(i) : i \in 1..Len(heap)}
EpgInputs == {None, Ref(EpgId), Ref(FabricId)}
EncapArgs == {None, EmptyStr, Vlan5, Vlan0}
SessionInputs == {None, TheSession, NameA}
Statuses == {"200", "400"}

Quiet == UNCHANGED <<saved, imdata, reads, encapArg, encapRet>>

Init ==
    /\ heap = Fixture
    /\ err = "none"
    /\ op = IdleOp
    /\ ret = IdleRet
    /\ saved = Obj("")
    /\ sessionLog = <<>>
    /\ imdata = <<>>
    /\ reads = <<>>
    /\ encapArg = None
    /\ encapRet = "uncalled"

Constructed(r, o) ==
    /\ heap' = r.heap
    /\ err' = r.err
    /\ op' = [o EXCEPT !.self = r.id]
    /\ ret' = IdleRet
    /\ sessionLog' = <<>>
    /\ Quiet

CanAllocate == Len(heap) < Len(Fixture) + MaxNew

NewAAEP_EPG ==
    /\ CanAllocate
    /\ \E parent \in ParentInputs, epg \in EpgInputs, encap \in EncapArgs :
          Constructed(AAEP_EPG_init(heap, parent, epg, encap),
                      Op("new", "AAEP_EPG", 0, parent, epg, encap))

NewAAEP_PhysDomain ==
    /\ CanAllocate
    /\ \E parent \in ParentInputs :
          Constructed(AAEP_PhysDomain_init(heap, NameA, parent),
                      Op("new", "AAEP_PhysDomain", 0, parent, NameA, None))

NewAAEP ==
    /\ CanAllocate
    /\ \E parent \in ParentInputs :
          Constructed(AAEP_init(heap, NameB, parent),
                      Op("new", "AAEP", 0, parent, NameB, None))

NewLogicalModel ==
    /\ CanAllocate
    /\ \E parent \in ParentInputs, session \in SessionInputs :
          Constructed(LogicalModel_init(heap, session, parent),
                      Op("new", "LogicalModel", 0, parent, session, None))

\* the EPG's dn changes (it is populated from the controller, or reassigned)
SetEpgDn ==
    /\ \E v \in DnVals :
          /\ v # heap[EpgId].dn
          /\ heap' = [heap EXCEPT ![EpgId].dn = v]
          /\ op' = Op("set_epg_dn", "EPG", EpgId, None, v, None)
    /\ err' = "none"
    /\ ret' = IdleRet
    /\ sessionLog' = <<>>
    /\ Quiet

\* the Session answers a push with a status, or raises
Pushed(id, request) ==
    /\ \/ \E status \in Statuses :
             /\ ret' = Ret(EmptyDict, <<>>, 0, status)
             /\ sessionLog' = <<request @@ [resp |-> status]>>
             /\ err' = "none"
       \/ /\ ret' = IdleRet
          /\ sessionLog' = <<request @@ [resp |-> "raised"]>>
          /\ err' = "TransportError"
    /\ op' = Op("push", heap[id].cls, id, None, None, None)
    /\ UNCHANGED heap
    /\ Quiet

AAEP_push_to_apic ==
    \E id \in 1..Len(heap) :
        /\ heap[id].cls = "AAEP"
        /\ Pushed(id, AAEP_push_request(heap[id]))

AAEP_EPG_push_to_apic ==
    \E id \in 1..Len(heap) :
        /\ heap[id].cls = "AAEP_EPG"
        /\ Pushed(id, AAEP_EPG_push_request(heap[id]))

Next ==
    \/ NewAAEP_EPG
    \/ NewAAEP_PhysDomain
    \/ NewAAEP
    \/ NewLogicalModel
    \/ SetEpgDn
    \/ AAEP_push_to_apic
    \/ AAEP_EPG_push_to_apic

Spec == Init /\ [][Next]_vars

\* the parent argument of the construction op is supplied and is no instance
\* of the class's declared parent class
WrongParent(h, o) ==
    o.parent # None /\ ~IsInstance(h, o.parent, get_parent_class(o.cls))

\* the epg argument of an AAEP_EPG construction is of the wrong type
WrongEpg(h, o) ==
    o.cls = "AAEP_EPG" /\ Truthy(o.a2) /\ ~IsInstance(h, o.a2, "EPG")

\* LogicalModel's assertion on its session argument fails
BadSession(o) ==
    o.cls = "LogicalModel" /\ Truthy(o.a2) /\ o.a2.k # "session"

C2_TargetDnSnapshot ==
    [][/\ (op'.name = "new" /\ op'.cls = "AAEP_EPG" /\ err' = "none") =>
             heap'[op'.self].tDn =
                 IF IsInstance(heap, op'.a2, "EPG") THEN heap[op'.a2.r].dn
                 ELSE None
       /\ op'.name = "set_epg_dn" =>
             /\ Len(heap') = Len(heap)
             /\ \A i \in 1..Len(heap) :
                   heap[i].cls = "AAEP_EPG" => heap'[i].tDn = heap[i].tDn
       /\ (op'.name = "push" /\ op'.cls = "AAEP_EPG"
             /\ heap'[op'.self].tDn = None) =>
             "tDn" \notin DOMAIN sessionLog'[1].doc.attributes]_vars

\* an attachment took its tDn from an EPG whose dn was still None, the EPG's
\* dn was set afterwards, and the attachment was pushed
C2_Witness ==
    /\ op.name = "push"
    /\ op.cls = "AAEP_EPG"
    /\ heap[op.self].epg = Ref(EpgId)
    /\ heap[op.self].tDn = None
    /\ heap[EpgId].dn # None

\* C6: AAEP.push_to_apic makes one request, to get_url(), returns the
\* Session's response, and the document it sends lists under 'children' every
\* child attached to the AAEP.
C6_Claim ==
    (op.name = "push" /\ op.cls = "AAEP" /\ err = "none") =>
        /\ Len(sessionLog) = 1
        /\ sessionLog[1].method = "push_to_apic"
        /\ sessionLog[1].url = AAEP_get_url("json")
        /\ ret.status = sessionLog[1].resp
        /\ LET kids == heap[op.self].children
               doc == sessionLog[1].doc
           IN  /\ Len(doc.children) = Len(kids)
               /\ \A i \in 1..Len(kids) :
                     heap[kids[i]].cls = "AAEP_EPG" =>
                         doc.children[i] = AAEP_EPG_get_json(heap[kids[i]])

(***************************************************************************)
(* The codec on one node: a freshly constructed AAEP_EPG or AAEP, whose    *)
(* fields are then assigned, populated, serialized and round-tripped.      *)
(***************************************************************************)
FieldVals == {None, EmptyStr, NameA}
EncapVals == {None, EmptyStr, Vlan5, Vlan0}

\* the node is built next to the one EPG
NodeId == AAEP_init(<<Obj("EPG")>>, NameA, None).id

CodecHeaps ==
    LET epgHeap(d) == <<[Obj("EPG") EXCEPT !.dn = d]>>
    IN  {AAEP_EPG_init(epgHeap(d), None, e, encap).heap :
            d \in FieldVals, e \in {None, Ref(1)},
            encap \in {v \in EncapVals : AAEP_EPG_encap_ok(v)}}
        \cup {AAEP_init(epgHeap(None), n, None).heap : n \in {NameA, NameB}}

FieldsOf(cls) == IF cls = "AAEP_EPG" THEN AAEP_EPG_fields ELSE AAEP_fields

Range(seq) == {seq[i] : i \in 1..Len(seq)}

generate_attributes(node) ==
    IF node.cls = "AAEP_EPG" THEN AAEP_EPG_generate_attributes(node)
    ELSE AAEP_generate_attributes(node)

populate_from_attributes(node, attributes) ==
    IF node.cls = "AAEP_EPG" THEN AAEP_EPG_populate_from_attributes(node, attributes)
    ELSE AAEP_populate_from_attributes(node, attributes)

FullRecord ==
    [name |-> NameA, descr |-> EmptyStr, dn |-> NameB, lcOwn |-> NameA,
     childAction |-> EmptyStr, tDn |-> NameB, encap |-> Vlan5]

AttrInputs ==
    { EmptyDict,
      FullRecord,
      [encap |-> Vlan0],
      [name |-> NameB, dn |-> NameA, encap |-> EmptyStr] }

FieldName(f) == [k |-> "field", r |-> 0, s |-> <<f>>]

InitCodec ==
    /\ heap \in CodecHeaps
    /\ err = "none"
    /\ op = IdleOp
    /\ ret = IdleRet
    /\ saved = Obj("")
    /\ sessionLog = <<>>
    /\ imdata = <<>>
    /\ reads = <<>>
    /\ encapArg = None
    /\ encapRet = "uncalled"

QuietCodec == UNCHANGED <<sessionLog, imdata, reads, encapArg, encapRet>>

\* node.f = v: a plain attribute assignment, nothing is validated
AssignField ==
    /\ \E f \in Range(FieldsOf(heap[NodeId].cls)) :
          \E v \in IF f = "encap" THEN EncapVals ELSE FieldVals :
              /\ heap' = [heap EXCEPT ![NodeId][f] = v]
              /\ op' = Op("assign", heap[NodeId].cls, NodeId, None, FieldName(f), v)
    /\ err' = "none"
    /\ ret' = IdleRet
    /\ saved' = Obj("")
    /\ QuietCodec

GenerateAttributes ==
    /\ ret' = Ret(generate_attributes(heap[NodeId]), <<>>, 0, "")
    /\ op' = Op("generate", heap[NodeId].cls, NodeId, None, None, None)
    /\ err' = "none"
    /\ saved' = Obj("")
    /\ UNCHANGED heap
    /\ QuietCodec

PopulateFromAttributes ==
    /\ \E attributes \in AttrInputs :
          /\ heap' = [heap EXCEPT
                        ![NodeId] = populate_from_attributes(@, attributes)]
          /\ ret' = Ret(attributes, <<>>, 0, "")
    /\ op' = Op("populate", heap[NodeId].cls, NodeId, None, None, None)
    /\ err' = "none"
    /\ saved' = Obj("")
    /\ QuietCodec

\* n._populate_from_attributes(n._generate_attributes())
RoundTrip ==
    /\ saved' = heap[NodeId]
    /\ ret' = Ret(generate_attributes(heap[NodeId]), <<>>, 0, "")
    /\ heap' = [heap EXCEPT
                  ![NodeId] = populate_from_attributes(@, generate_attributes(@))]
    /\ op' = Op("roundtrip", heap[NodeId].cls, NodeId, None, None, None)
    /\ err' = "none"
    /\ QuietCodec

NextCodec ==
    \/ AssignField
    \/ GenerateAttributes
    \/ PopulateFromAttributes
    \/ RoundTrip

SpecCodec == InitCodec /\ [][NextCodec]_vars

\* C4: the encap an AAEP_EPG holds is unset or passes is_valid_encap, after
\* any construction, assignment and _populate_from_attributes.
C4_Claim ==
    \A i \in 1..Len(heap) :
        heap[i].cls = "AAEP_EPG" =>
            (Truthy(heap[i].encap) => is_valid_encap(heap[i].encap) = "True")

\* C5 as claimed: the round trip leaves every declared field as it was,
\* empty strings included.
C5_Claim ==
    op.name = "roundtrip" =>
        \A f \in Range(FieldsOf(op.cls)) : heap[NodeId][f] = saved[f]

\* C5, amended: the round trip leaves every declared field that was None or
\* a non-empty string as it was; a field that held the empty string is None
\* afterwards.
C5_RoundTrip ==
    op.name = "roundtrip" =>
        \A f \in Range(FieldsOf(op.cls)) :
            heap[NodeId][f] = IF saved[f] = EmptyStr THEN None ELSE saved[f]

\* an AAEP_EPG with set, unset and empty fields went through the round trip
C5_Witness ==
    /\ op.name = "roundtrip"
    /\ op.cls = "AAEP_EPG"
    /\ saved.encap = Vlan5
    /\ saved.tDn = NameA
    /\ saved.lcOwn = EmptyStr
    /\ saved.childAction = None

\* C10: the mapping _generate_attributes returns has a key exactly for the
\* declared fields that are neither None nor '', each with the field's
\* value; it holds no None and no empty string.
C10_OnlySetAttributes ==
    op.name = "generate" =>
        LET node == heap[NodeId]
            attrs == ret.attrs
        IN  /\ DOMAIN attrs \subseteq Range(FieldsOf(op.cls))
            /\ \A f \in Range(FieldsOf(op.cls)) :
                  IF node[f] \in {None, EmptyStr}
                  THEN f \notin DOMAIN attrs
                  ELSE f \in DOMAIN attrs /\ attrs[f] = node[f]
            /\ \A key \in DOMAIN attrs : attrs[key] \notin {None, EmptyStr}

\* attributes were generated for an AAEP with a set, an unset and an empty
\* field
C10_Witness ==
    /\ op.name = "generate"
    /\ op.cls = "AAEP"
    /\ heap[NodeId].descr = EmptyStr
    /\ heap[NodeId].dn = None
    /\ heap[NodeId].lcOwn = NameA
    /\ DOMAIN ret.attrs = {"name", "lcOwn"}

(***************************************************************************)
(* Reads through the Session: AAEP.get and AAEP.get_by_name                *)
(***************************************************************************)
\* str(v)
PyStr(v) ==
    CASE v.k = "str" -> v
      [] v.k = "int" -> Str(v.s)
      [] OTHER -> Str(<<"N", "o", "n", "e">>)

\* the attributes read with attributes[key] by AAEP.get
AAEP_get_required == {"name", "dn", "lcOwn", "childAction"}

\* the rest of a pass of the loop of AAEP.get, c being the outcome of
\* toolkit_class(name, parent): populate, then dn, lcOwn and childAction are
\* read with attributes[...]
AAEP_get_decode(c, attrs) ==
    IF c.err # "none" THEN c
    ELSE IF ~(AAEP_get_required \subseteq DOMAIN attrs)
    THEN Raise([c.heap EXCEPT ![c.id] = AAEP_populate_from_attributes(@, attrs)],
               "KeyError")
    ELSE [c EXCEPT !.heap =
             [c.heap EXCEPT
                ![c.id] = [AAEP_populate_from_attributes(@, attrs) EXCEPT
                             !.dn = attrs["dn"],
                             !.lcOwn = attrs["lcOwn"],
                             !.childAction = attrs["childAction"]]]]

\* one pass of the loop of AAEP.get over the record with these attributes
AAEP_get_record(h, parent, attrs) ==
    IF "name" \notin DOMAIN attrs THEN Raise(h, "KeyError")
    ELSE AAEP_get_decode(AAEP_init(h, PyStr(attrs["name"]), parent), attrs)

\* resp.append(obj), or the exception of the pass
AAEP_get_append(before, one) ==
    IF one.err # "none" THEN [err |-> one.err, heap |-> one.heap, list |-> <<>>]
    ELSE [err |-> "none", heap |-> one.heap, list |-> Append(before.list, one.id)]

AAEP_get_step(before, parent, attrs) ==
    IF before.err # "none" THEN before
    ELSE AAEP_get_append(before, AAEP_get_record(before.heap, parent, attrs))

\* the loop of AAEP.get: the state after the first i records, an exception
\* ending it
AAEP_get_loop(h, parent, data) ==
    LET after[i \in 0..Len(data)] ==
            IF i = 0 THEN [err |-> "none", heap |-> h, list |-> <<>>]
            ELSE AAEP_get_step(after[i - 1], parent, data[i])
    IN  after[Len(data)]

\* when AAEP.get raises, the nodes built so far stay only if a parent
\* holds them
AAEP_get_outcome(h, parent, r) ==
    IF r.err # "none" /\ parent.k # "ref" THEN [r EXCEPT !.heap = h] ELSE r

\* AAEP.get with a loop that starts at the second record
AAEP_get_SkipFirst(h, parent, data) ==
    AAEP_get_outcome(h, parent,
        AAEP_get_loop(h, parent, IF Len(data) > 0 THEN Tail(data) ELSE data))

\* AAEP.get(session, parent) on the response data
AAEP_get(h, parent, data) ==
    AAEP_get_outcome(h, parent, AAEP_get_loop(h, parent, data))

\* AAEP.get_by_name(session, aaep_name) on the response data: every record
\* is decoded into a parentless AAEP, 'descr' included, before its name is
\* compared; the instance returned is the only one kept.
RECURSIVE AAEP_get_by_name(_, _, _)
AAEP_get_by_name(h, data, aaep_name) ==
    IF Len(data) = 0 THEN [err |-> "none", heap |-> h, id |-> 0]
    ELSE LET attrs == Head(data)
             one == AAEP_get_record(h, None, attrs)
         IN  IF one.err # "none" THEN Raise(h, one.err)
             ELSE IF "descr" \notin DOMAIN attrs THEN Raise(h, "KeyError")
             ELSE IF PyStr(attrs["name"]) = aaep_name
             THEN [one EXCEPT !.heap = [one.heap EXCEPT ![one.id].descr = attrs["descr"]]]
             ELSE AAEP_get_by_name(h, Tail(data), aaep_name)

MaxRecords == 2

LcLocal == Str(<<"l">>)
LcPolicy == Str(<<"p">>)
DnD == Str(<<"d">>)
DescrX == Str(<<"x">>)

\* what the controller returns for an infraAttEntityP: name, dn, lcOwn and
\* childAction are always there, descr may be missing
Records ==
    LET base == {[name |-> n, dn |-> DnD, lcOwn |-> l, childAction |-> EmptyStr] :
                    n \in {NameA, NameB}, l \in {LcLocal, LcPolicy}}
    IN  base \cup {b @@ [descr |-> DescrX] : b \in base}

QueryHeap == LogicalModel_init(BareHeap, TheSession, Ref(FabricId)).heap
LmId == LogicalModel_init(BareHeap, TheSession, Ref(FabricId)).id

InitQuery ==
    /\ heap = QueryHeap
    /\ imdata \in SeqsUpTo(Records, MaxRecords)
    /\ err = "none"
    /\ op = IdleOp
    /\ ret = IdleRet
    /\ saved = Obj("")
    /\ sessionLog = <<>>
    /\ reads = <<>>
    /\ encapArg = None
    /\ encapRet = "uncalled"

QuietQuery == UNCHANGED <<saved, imdata, reads, encapArg, encapRet>>

CanQuery == Len(heap) <= Len(QueryHeap) + MaxRecords

GetRequest(resp) == [method |-> "get", url |-> AAEP_query_url, doc |-> NoDoc, resp |-> resp]

\* session.get raises: nothing else happens
TransportFails(o) ==
    /\ sessionLog' = <<GetRequest("raised")>>
    /\ err' = "TransportError"
    /\ ret' = IdleRet
    /\ op' = o
    /\ UNCHANGED heap
    /\ QuietQuery

AAEP_get_action ==
    /\ CanQuery
    /\ \E parent \in {None, Ref(LmId)} :
          LET o == Op("get", "AAEP", 0, parent, None, None)
              r == AAEP_get(heap, parent, imdata)
          IN  \/ TransportFails(o)
              \/ /\ sessionLog' = <<GetRequest("200")>>
                 /\ heap' = r.heap
                 /\ err' = r.err
                 /\ ret' = Ret(EmptyDict, r.list, 0, "")
                 /\ op' = o
                 /\ QuietQuery

AAEP_get_by_name_action ==
    /\ CanQuery
    /\ \E aaep_name \in {NameA, NameB} :
          LET o == Op("get_by_name", "AAEP", 0, None, aaep_name, None)
              r == AAEP_get_by_name(heap, imdata, aaep_name)
          IN  \/ TransportFails(o)
              \/ /\ sessionLog' = <<GetRequest("200")>>
                 /\ heap' = r.heap
                 /\ err' = r.err
                 /\ ret' = Ret(EmptyDict, <<>>, r.id, "")
                 /\ op' = o
                 /\ QuietQuery

NextQuery ==
    \/ AAEP_get_action
    \/ AAEP_get_by_name_action

SpecQuery == InitQuery /\ [][NextQuery]_vars

Answered == Len(sessionLog) = 1 /\ sessionLog[1].resp # "raised"

\* C7: AAEP.get makes one get request, on the subtree-class query for
\* infraAttEntityP; when it is answered with k records, get returns k new
\* AAEP nodes in record order, the i-th with the name, dn, lcOwn and
\* childAction of the i-th record, each under the parent that was supplied.
C7_GetDecodesEveryRecord ==
    op.name = "get" =>
        /\ Len(sessionLog) = 1
        /\ sessionLog[1].method = "get"
        /\ sessionLog[1].url = AAEP_query_url
        /\ Answered =>
              /\ err = "none"
              /\ Len(ret.list) = Len(imdata)
              /\ \A i \in 1..Len(ret.list) :
                    LET node == heap[ret.list[i]]
                    IN  /\ node.cls = "AAEP"
                        /\ node.name = imdata[i].name
                        /\ node.dn = imdata[i].dn
                        /\ node.lcOwn = imdata[i].lcOwn
                        /\ node.childAction = imdata[i].childAction
                        /\ node.parent = op.parent
              /\ \A i, j \in 1..Len(ret.list) :
                    ret.list[i] = ret.list[j] => i = j

\* two records that differ in name and lcOwn were read under a parent
C7_Witness ==
    /\ op.name = "get"
    /\ op.parent = Ref(LmId)
    /\ Answered
    /\ Len(ret.list) = 2
    /\ imdata[1].name # imdata[2].name
    /\ imdata[1].lcOwn # imdata[2].lcOwn

FirstMatch(data, name) ==
    IF \E i \in 1..Len(data) : data[i].name = name
    THEN CHOOSE i \in 1..Len(data) :
            /\ data[i].name = name
            /\ \A j \in 1..(i - 1) : data[j].name # name
    ELSE 0

\* C8: an answered get_by_name returns the AAEP decoded from the first
\* record with the requested name, and None (no exception) when no record
\* has it, whether or not records carry 'descr'; nothing is attached to a
\* parent.
C8_Claim ==
    (op.name = "get_by_name" /\ Answered) =>
        LET m == FirstMatch(imdata, op.a2)
        IN  /\ err = "none"
            /\ m = 0 => ret.obj = 0
            /\ m # 0 =>
                  /\ ret.obj # 0
                  /\ heap[ret.obj].cls = "AAEP"
                  /\ heap[ret.obj].name = imdata[m].name
                  /\ heap[ret.obj].lcOwn = imdata[m].lcOwn
                  /\ heap[ret.obj].parent = None
            /\ \A i \in 1..Len(QueryHeap) : heap[i].children = QueryHeap[i].children

(***************************************************************************)
(* LogicalModel.populate_children                                          *)
(***************************************************************************)
MaxFound == 1

LogicalModel_get_children_classes_Swapped == <<"Tenant", "AAEP", "PhysDomain">>

LogicalModel_get_children_classes == <<"Tenant", "PhysDomain", "AAEP">>

\* Tenant.get / PhysDomain.get (and get_deep): n instances of the class are
\* built under the parent
RECURSIVE Other_get(_, _, _, _, _)
Other_get(h, cls, parent, n, resp) ==
    IF n = 0 THEN [err |-> "none", heap |-> h, list |-> resp]
    ELSE LET c == BaseACIObject_init(h, Obj(cls), NameA, parent)
         IN  IF c.err # "none" THEN [err |-> c.err, heap |-> c.heap, list |-> <<>>]
             ELSE Other_get(c.heap, cls, parent, n - 1, Append(resp, c.id))

\* one read of a child class through the session: child_class.get(session,
\* parent) or child_class.get_deep(session, parent=parent).  Without a
\* session the request cannot be made; the transport may raise.
ReadChildClass(h, cls, session, parent, outcome, n, data) ==
    IF session = None THEN [err |-> "AttributeError", heap |-> h, list |-> <<>>]
    ELSE IF outcome = "raise" THEN [err |-> "TransportError", heap |-> h, list |-> <<>>]
    ELSE IF cls = "AAEP" THEN AAEP_get(h, parent, data)
    ELSE Other_get(h, cls, parent, n, <<>>)

ReadEntry(cls, deep, session, parent, r) ==
    [cls |-> cls, method |-> IF deep THEN "get_deep" ELSE "get",
     session |-> session, parent |-> parent,
     raised |-> r.err # "none", result |-> r.list]

\* the log and heap after a read of cls with outcome r
populate_children_read(before, cls, deep, self, r) ==
    [err |-> r.err, heap |-> r.heap,
     log |-> Append(before.log,
                    ReadEntry(cls, deep, before.heap[self].session, Ref(self), r))]

\* one pass of the loop of populate_children
populate_children_step(before, self, deep, cls, outcome, n, data) ==
    IF before.err # "none" THEN before
    ELSE populate_children_read(before, cls, deep, self,
             ReadChildClass(before.heap, cls, before.heap[self].session,
                            Ref(self), outcome, n, data))

\* the loop of populate_children over the classes: the state after i
\* classes, an exception ending it
populate_children_loop(h, self, deep, classes, outcomes, n, data) ==
    LET after[i \in 0..Len(classes)] ==
            IF i = 0 THEN [err |-> "none", heap |-> h, log |-> <<>>]
            ELSE populate_children_step(after[i - 1], self, deep, classes[i],
                                        outcomes[i], n, data)
    IN  after[Len(classes)]

\* "return self._children"
populate_children_return(self, r) ==
    [err |-> r.err, heap |-> r.heap, log |-> r.log,
     list |-> IF r.err = "none" THEN r.heap[self].children ELSE <<>>]

\* LogicalModel.populate_children(deep)
LogicalModel_populate_children(h, self, deep, outcomes, n, data) ==
    populate_children_return(self,
        populate_children_loop(h, self, deep, LogicalModel_get_children_classes,
                               outcomes, n, data))

\* the AAEP records answered during a populate: one per name
PopulateRecords == {b \in Records : "descr" \in DOMAIN b /\ b.lcOwn = LcLocal}

InitPopulate ==
    /\ \E session \in {None, TheSession} :
          heap = LogicalModel_init(BareHeap, session, Ref(FabricId)).heap
    /\ imdata \in SeqsUpTo(PopulateRecords, MaxRecords)
    /\ err = "none"
    /\ op = IdleOp
    /\ ret = IdleRet
    /\ saved = Obj("")
    /\ sessionLog = <<>>
    /\ reads = <<>>
    /\ encapArg = None
    /\ encapRet = "uncalled"

PopulateChildren ==
    /\ Len(heap) <= Len(QueryHeap) + MaxRecords + MaxFound
    /\ \E deep \in BOOLEAN, n \in 0..MaxFound,
          outcomes \in [1..Len(LogicalModel_get_children_classes) -> {"ok", "raise"}] :
          LET r == LogicalModel_populate_children(heap, LmId, deep, outcomes, n, imdata)
          IN  /\ heap' = r.heap
              /\ err' = r.err
              /\ reads' = r.log
              /\ ret' = Ret(EmptyDict, r.list, 0, "")
              /\ op' = Op("populate_children", "LogicalModel", LmId, None,
                          IF deep THEN PyTrue ELSE PyFalse, None)
    /\ UNCHANGED <<saved, sessionLog, imdata, encapArg, encapRet>>

NextPopulate == PopulateChildren

SpecPopulate == InitPopulate /\ [][NextPopulate]_vars

\* the ids the reads of a log returned, in order
RECURSIVE ResultsOf(_)
ResultsOf(log) ==
    IF Len(log) = 0 THEN <<>> ELSE Head(log).result \o ResultsOf(Tail(log))

\* what a step that is a populate_children call satisfies
C9_Step ==
    LET expected == <<"Tenant", "PhysDomain", "AAEP">>
        self == op'.self
    IN  /\ Len(reads') <= Len(expected)
        /\ Len(reads') >= 1
        /\ \A i \in 1..Len(reads') :
              /\ reads'[i].cls = expected[i]
              /\ reads'[i].method = IF op'.a2 = PyTrue THEN "get_deep" ELSE "get"
              /\ reads'[i].session = heap[self].session
              /\ reads'[i].parent = Ref(self)
              /\ reads'[i].raised <=> (i = Len(reads') /\ err' # "none")
        /\ err' = "none" =>
              /\ Len(reads') = Len(expected)
              /\ ret'.list = heap'[self].children
        /\ heap'[self].children = heap[self].children \o ResultsOf(reads')

\* C9: populate_children reads Tenant, PhysDomain, AAEP in that order, each
\* once, with get_deep when deep and get otherwise, always with the model's
\* own session and the model as parent; a read that raises is the last one
\* made; the children the model had stay in place, followed by the results
\* of the reads; when no read raises the model's children list is returned.
C9_PopulateReadsEachClassOnce ==
    [][op'.name = "populate_children" => C9_Step]_vars

\* a shallow populate read all three classes and attached a Tenant, a
\* PhysDomain and two AAEPs
C9_Witness ==
    /\ op.name = "populate_children"
    /\ op.a2 = PyFalse
    /\ err = "none"
    /\ Len(reads) = 3
    /\ Len(ret.list) = 4
    /\ heap[ret.list[1]].cls = "Tenant"
    /\ heap[ret.list[2]].cls = "PhysDomain"
    /\ heap[ret.list[4]].cls = "AAEP"

(***************************************************************************)
(* Inputs of is_valid_encap                                                *)
(***************************************************************************)
MaxSuffix == 4

SuffixChars == {"0", "1", "4", "5", "9", "+", "-", " ", "_", "a"}

OtherEncapInputs ==
    { None,
      IntLit(<<"1", "2", "3">>),
      IntLit(<<"0">>),
      EmptyStr,
      Str(<<"v", "l", "a", "n">>),
      Str(<<"u", "n", "t", "a", "g", "g", "e", "d">>),
      Str(<<"V", "L", "A", "N", "-", "5">>),
      Str(<<"v", "x", "l", "a", "n", "-", "5">>),
      Str(<<" ", "v", "l", "a", "n", "-", "5">>),
      Str(<<"v", "l", "a", "n", "-", "1", "2", "3">>),
      Str(<<"v", "l", "a", "n", "-", "0", "4", "0", "9", "4">>),
      Str(<<"v", "l", "a", "n", "-", "0", "4", "0", "9", "5">>),
      Str(<<"v", "l", "a", "n", "-", "a", "b", "c">>) }

EncapInputs ==
    {Str(VlanPrefix \o suf) : suf \in SeqsUpTo(SuffixChars, MaxSuffix)}
        \cup OtherEncapInputs

InitEncap ==
    /\ encapArg \in EncapInputs
    /\ encapRet = "uncalled"
    /\ heap = <<>>
    /\ err = "none"
    /\ op = IdleOp
    /\ ret = IdleRet
    /\ saved = Obj("")
    /\ sessionLog = <<>>
    /\ imdata = <<>>
    /\ reads = <<>>

CallIsValidEncap ==
    /\ encapRet = "uncalled"
    /\ encapRet' = is_valid_encap(encapArg)
    /\ UNCHANGED <<heap, err, op, ret, saved, sessionLog, imdata, reads, encapArg>>

NextEncap == CallIsValidEncap

SpecEncap == InitEncap /\ [][NextEncap]_vars

\* the documented form: 'vlan-' followed by one or more decimal digits whose
\* value is within 1..4094
DocumentedEncap(x) ==
    /\ x.k = "str"
    /\ Len(x.s) > PrefixLen
    /\ SliceTo(x.s, PrefixLen) = VlanPrefix
    /\ \A i \in (PrefixLen + 1)..Len(x.s) : x.s[i] \in Digits
    /\ LET n == DigitsValue(SliceFrom(x.s, PrefixLen), 0)
       IN  n >= 1 /\ n <= 4094

\* C3: is_valid_encap(x) is True exactly for 'vlan-' followed only by decimal
\* digits with value in 1..4094, and False (never an exception) otherwise.
C3_Claim ==
    encapRet # "uncalled" =>
        /\ encapRet # "raised"
        /\ (encapRet = "True") <=> DocumentedEncap(encapArg)

====
